---- MODULE Spec2Model ----
(* A model of getMODIS.py: a thin synchronous client of the ORNL MODIS REST *)
(* service.  The state is the caller's parameter mapping (a mutable dict    *)
(* shared with get_data), the locals of the running call, the requests      *)
(* handed to requests.get and the responses the service gave back.  A call  *)
(* blocks at every requests.get; the model takes one step per call start    *)
(* and one step per response.                                               *)
EXTENDS Integers, Sequences, FiniteSets, TLC

VARIABLES pc, op, search_params, call_args, product, bands, idx, results,
          sent, received, outcome, again, prev_sent

vars == <<pc, op, search_params, call_args, product, bands, idx, results,
          sent, received, outcome, again, prev_sent>>

\* ---------------------------------------------------------------- bounds
MaxBands == 2

\* ------------------------------------------------------- program constants
modis_rest_api == "https://modis.ornl.gov/rst/api/v1/"

json_header == [Accept |-> "application/json"]

default_args ==
  [k \in {"product", "siteid", "network", "network_siteid", "band",
          "latitude", "longitude", "startDate", "endDate", "kmAboveBelow",
          "kmLeftRight", "email", "uid"} |-> "None"]

\* ------------------------------------------------------------ input sets
EmptyMap == [k \in {} |-> ""]

ParamKeys == {"product", "band", "latitude", "foo", "bar"}

ValuesOf(k) ==
  CASE k = "product" -> {"MYD09A1", "MOD13Q1"}
    [] k = "band"    -> {"all", "sur_refl_b06"}
    [] OTHER         -> {"v"}

AllValues == UNION {ValuesOf(k) : k \in ParamKeys}

Mappings ==
  UNION {{m \in [ks -> AllValues] : \A k \in ks : m[k] \in ValuesOf(k)} :
         ks \in SUBSET ParamKeys}

Products == {"MYD09A1", "MOD13Q1"}

Coords == {39, -121}

Statuses == {200, 500}

Docs == {"D1", "D2"}

CatalogNames == {"b1", "b2", "all"}

BandEntries == {[band |-> n] : n \in CatalogNames}

CatalogDocs ==
  UNION {{[bands |-> s] : s \in [1..n -> BandEntries]} : n \in 0..MaxBands}
  \cup {[error |-> "no such product"]}

Garbage == [valid |-> FALSE, value |-> "<html>"]

TransportFailure == [kind |-> "error", status |-> 0, text |-> Garbage]

ResponsesOver(values) ==
  {[kind |-> "response", status |-> s, text |-> t] :
     s \in Statuses,
     t \in {[valid |-> TRUE, value |-> v] : v \in values} \cup {Garbage}}
  \cup {TransportFailure}

DocResponses == ResponsesOver(Docs)

CatalogResponses == ResponsesOver(CatalogDocs)

\* ------------------------------------------------------ library behaviour
\* set(search_params.keys()) - set(default_args.keys())
diff_reversed(params) == DOMAIN default_args \ DOMAIN params

diff(params) == DOMAIN params \ DOMAIN default_args

\* dict.pop(key): KeyError when the key is absent, else the value, and the
\* key is gone from the same dict object.
pop_keep(m, k) ==
  IF k \in DOMAIN m
    THEN [raised |-> FALSE, value |-> m[k], rest |-> m]
    ELSE [raised |-> TRUE, value |-> "", rest |-> m]

pop_default(m, k) ==
  IF k \in DOMAIN m
    THEN [raised |-> FALSE, value |-> m[k],
          rest |-> [x \in DOMAIN m \ {k} |-> m[x]]]
    ELSE [raised |-> FALSE, value |-> "None", rest |-> m]

pop(m, k) ==
  IF k \in DOMAIN m
    THEN [raised |-> FALSE, value |-> m[k],
          rest |-> [x \in DOMAIN m \ {k} |-> m[x]]]
    ELSE [raised |-> TRUE, value |-> "", rest |-> m]

\* search_params['band'] != 'all'
single_branch_inverted(params) == params["band"] = "all"

single_branch(params) == params["band"] # "all"

\* search_params['band'] = band
set_band_skipped(params, band) == params

set_band(params, band) == [params EXCEPT !["band"] = band]

\* results[band] = result
store_first_wins(res, band, result) ==
  IF band \in DOMAIN res
    THEN res
    ELSE [b \in DOMAIN res \cup {band} |->
            IF b = band THEN result ELSE res[b]]

store(res, band, result) ==
  [b \in DOMAIN res \cup {band} |-> IF b = band THEN result ELSE res[b]]

\* [band['band'] for band in bands['bands']]
band_names(doc) == [i \in 1..Len(doc.bands) |-> doc.bands[i].band]

\* requests.get(url, params=..., headers=...): the request as handed to the
\* HTTP library; params is a snapshot of the dict at the time of the call.
Get(url, params, headers) ==
  [url |-> url, params |-> params, headers |-> headers]

subset_url(p) == <<modis_rest_api, p, "/subset?">>

products_request == Get(<<modis_rest_api, "products">>, EmptyMap, json_header)

bands_request(p) == Get(<<modis_rest_api, p, "/bands">>, EmptyMap, json_header)

dates_request_swapped(p, longitude, latitude) ==
  Get(<<modis_rest_api, p, "/dates?",
        "latitude=", ToString(longitude), "&",
        "longitude=", ToString(latitude)>>, EmptyMap, json_header)

dates_request(p, longitude, latitude) ==
  Get(<<modis_rest_api, p, "/dates?",
        "latitude=", ToString(latitude), "&",
        "longitude=", ToString(longitude)>>, EmptyMap, json_header)

\* json.loads(text): the decoded document, or JSONDecodeError.
json_loads_lenient(text) ==
  [raised |-> FALSE, err |-> "",
   value |-> IF text.valid THEN text.value ELSE [error |-> "undecodable"]]

json_loads(text) ==
  IF text.valid
    THEN [raised |-> FALSE, err |-> "", value |-> text.value]
    ELSE [raised |-> TRUE, err |-> "JSONDecodeError", value |-> ""]

\* response = requests.get(...); json.loads(response.text): a transport
\* failure raises out of requests.get; the status code is not looked at.
fetch_checking_status(r) ==
  IF r.kind = "error"
    THEN [raised |-> TRUE, err |-> "ConnectionError", value |-> ""]
    ELSE IF r.status >= 400
      THEN [raised |-> TRUE, err |-> "HTTPError", value |-> ""]
      ELSE json_loads(r.text)

fetch(r) ==
  IF r.kind = "error"
    THEN [raised |-> TRUE, err |-> "ConnectionError", value |-> ""]
    ELSE json_loads(r.text)

\* ------------------------------------------------------------- outcomes
NoOutcome == [kind |-> "none", shape |-> "", err |-> "", args |-> {}, val |-> ""]

Returned(shape, v) ==
  [kind |-> "return", shape |-> shape, err |-> "", args |-> {}, val |-> v]

Raised(err, args) ==
  [kind |-> "raise", shape |-> "", err |-> err, args |-> args, val |-> ""]

\* ----------------------------------------------------------------- Init
Init ==
  /\ pc = "idle"
  /\ op = "none"
  /\ search_params = EmptyMap
  /\ call_args = EmptyMap
  /\ product = ""
  /\ bands = <<>>
  /\ idx = 0
  /\ results = EmptyMap
  /\ sent = <<>>
  /\ received = <<>>
  /\ outcome = NoOutcome
  /\ again = FALSE
  /\ prev_sent = <<>>

\* --------------------------------------------------------------- get_data
\* Lines 87-113/116: validation, pop of product, the branch on band and the
\* first requests.get of the call, run on the dict object m.
get_data_start(m) ==
  /\ op' = "get_data"
  /\ call_args' = m
  /\ bands' = <<>>
  /\ idx' = 0
  /\ results' = EmptyMap
  /\ received' = <<>>
  /\ IF diff(m) # {}
       THEN /\ outcome' = Raised("ValueError", diff(m))
            /\ search_params' = m
            /\ product' = ""
            /\ sent' = <<>>
            /\ pc' = "done"
       ELSE LET p == pop(m, "product") IN
         IF p.raised
           THEN /\ outcome' = Raised("KeyError", {"product"})
                /\ search_params' = m
                /\ product' = ""
                /\ sent' = <<>>
                /\ pc' = "done"
           ELSE
             /\ search_params' = p.rest
             /\ product' = p.value
             /\ IF "band" \notin DOMAIN p.rest
                  THEN /\ outcome' = Raised("KeyError", {"band"})
                       /\ sent' = <<>>
                       /\ pc' = "done"
                  ELSE IF single_branch(p.rest)
                    THEN /\ sent' = <<Get(subset_url(p.value), p.rest, EmptyMap)>>
                         /\ outcome' = NoOutcome
                         /\ pc' = "subset_single"
                    ELSE /\ sent' = <<bands_request(p.value)>>
                         /\ outcome' = NoOutcome
                         /\ pc' = "bands"

\* The caller builds a mapping and calls get_data with it.
Call_get_data ==
  /\ pc = "idle"
  /\ \E m \in Mappings : get_data_start(m)
  /\ again' = FALSE
  /\ prev_sent' = <<>>

\* The caller calls get_data once more with the same dict object.
Call_get_data_again ==
  /\ pc = "idle"
  /\ op = "get_data"
  /\ get_data_start(search_params)
  /\ again' = TRUE
  /\ prev_sent' = sent

\* Lines 113-114, 126: the single subset response arrives.
Reply_subset_single ==
  /\ pc = "subset_single"
  /\ \E r \in DocResponses :
       LET d == fetch(r) IN
       /\ received' = Append(received, r)
       /\ outcome' = IF d.raised THEN Raised(d.err, {})
                                 ELSE Returned("doc", d.value)
  /\ pc' = "done"
  /\ UNCHANGED <<op, search_params, call_args, product, bands, idx, results,
                 sent, again, prev_sent>>

\* Lines 116-122 (get_bands at 163-167 inlined): the catalog response
\* arrives, the band names are extracted and the loop issues its first
\* request, or returns the empty mapping when there is no band.
Reply_bands ==
  /\ pc = "bands"
  /\ \E r \in CatalogResponses :
       LET d == fetch(r) IN
       /\ received' = Append(received, r)
       /\ IF d.raised
            THEN /\ outcome' = Raised(d.err, {})
                 /\ pc' = "done"
                 /\ UNCHANGED <<search_params, bands, idx, results, sent>>
            ELSE IF "bands" \notin DOMAIN d.value
              THEN /\ outcome' = Raised("KeyError", {"bands"})
                   /\ pc' = "done"
                   /\ UNCHANGED <<search_params, bands, idx, results, sent>>
              ELSE LET names == band_names(d.value) IN
                /\ bands' = names
                /\ results' = EmptyMap
                /\ IF names = <<>>
                     THEN /\ outcome' = Returned("map", EmptyMap)
                          /\ pc' = "done"
                          /\ UNCHANGED <<search_params, idx, sent>>
                     ELSE /\ search_params' = set_band(search_params, names[1])
                          /\ sent' = Append(sent, Get(subset_url(product),
                                                     search_params', EmptyMap))
                          /\ idx' = 1
                          /\ outcome' = NoOutcome
                          /\ pc' = "subset_loop"
  /\ UNCHANGED <<op, call_args, product, again, prev_sent>>

\* Lines 120-126: the response for bands[idx] arrives; it is stored and the
\* loop goes on to the next band, or returns after the last one.
Reply_subset_loop ==
  /\ pc = "subset_loop"
  /\ \E r \in DocResponses :
       LET d == fetch(r) IN
       /\ received' = Append(received, r)
       /\ IF d.raised
            THEN /\ outcome' = Raised(d.err, {})
                 /\ pc' = "done"
                 /\ UNCHANGED <<search_params, idx, results, sent>>
            ELSE
              /\ results' = store(results, bands[idx], d.value)
              /\ IF idx = Len(bands)
                   THEN /\ outcome' = Returned("map", results')
                        /\ pc' = "done"
                        /\ UNCHANGED <<search_params, idx, sent>>
                   ELSE /\ search_params' = set_band(search_params, bands[idx + 1])
                        /\ sent' = Append(sent, Get(subset_url(product),
                                                   search_params', EmptyMap))
                        /\ idx' = idx + 1
                        /\ outcome' = NoOutcome
                        /\ pc' = "subset_loop"
  /\ UNCHANGED <<op, call_args, product, bands, again, prev_sent>>

\* ------------------------------------------------------- the leaf calls
leaf_start(name, args, request) ==
  /\ op' = name
  /\ call_args' = args
  /\ sent' = <<request>>
  /\ received' = <<>>
  /\ outcome' = NoOutcome
  /\ pc' = "leaf"
  /\ search_params' = EmptyMap
  /\ product' = ""
  /\ bands' = <<>>
  /\ idx' = 0
  /\ results' = EmptyMap
  /\ again' = FALSE
  /\ prev_sent' = <<>>

leaf_reply(responses) ==
  /\ \E r \in responses :
       LET d == fetch(r) IN
       /\ received' = Append(received, r)
       /\ outcome' = IF d.raised THEN Raised(d.err, {})
                                 ELSE Returned("doc", d.value)
  /\ pc' = "done"
  /\ UNCHANGED <<op, search_params, call_args, product, bands, idx, results,
                 sent, again, prev_sent>>

\* Lines 142-143
Call_get_products ==
  /\ pc = "idle"
  /\ leaf_start("get_products", EmptyMap, products_request)

\* Lines 144-146
Reply_get_products ==
  /\ pc = "leaf"
  /\ op = "get_products"
  /\ leaf_reply(DocResponses)

\* Lines 163-164
Call_get_bands ==
  /\ pc = "idle"
  /\ \E p \in Products :
       leaf_start("get_bands", [product |-> p], bands_request(p))

\* Lines 165-167
Reply_get_bands ==
  /\ pc = "leaf"
  /\ op = "get_bands"
  /\ leaf_reply(CatalogResponses)

\* Lines 188-191
Call_get_dates ==
  /\ pc = "idle"
  /\ \E p \in Products, longitude \in Coords, latitude \in Coords :
       leaf_start("get_dates",
                  [product |-> p, longitude |-> longitude,
                   latitude |-> latitude],
                  dates_request(p, longitude, latitude))

\* Lines 192-194
Reply_get_dates ==
  /\ pc = "leaf"
  /\ op = "get_dates"
  /\ leaf_reply(DocResponses)

\* The call is over: the caller holds the result or the exception, and still
\* holds the dict it passed in.
Finish ==
  /\ pc = "done"
  /\ pc' = "idle"
  /\ UNCHANGED <<op, search_params, call_args, product, bands, idx, results,
                 sent, received, outcome, again, prev_sent>>

Next ==
  \/ Call_get_data
  \/ Call_get_data_again
  \/ Reply_subset_single
  \/ Reply_bands
  \/ Reply_subset_loop
  \/ Call_get_products
  \/ Reply_get_products
  \/ Call_get_bands
  \/ Reply_get_bands
  \/ Call_get_dates
  \/ Reply_get_dates
  \/ Finish

Spec == Init /\ [][Next]_vars

\* ------------------------------------------------- vocabulary of the claims
RecognizedKeys ==
  {"product", "siteid", "network", "network_siteid", "band", "latitude",
   "longitude", "startDate", "endDate", "kmAboveBelow", "kmLeftRight",
   "email", "uid"}

Over == pc \in {"done", "idle"}

IsSubsetRequest(r) == Len(r.url) = 3 /\ r.url[3] = "/subset?"

IsBandsRequest(r) == Len(r.url) = 3 /\ r.url[3] = "/bands"

Failed(r) == r.kind = "error" \/ ~r.text.valid

ValidCall ==
  /\ op = "get_data"
  /\ DOMAIN call_args \subseteq RecognizedKeys
  /\ {"product", "band"} \subseteq DOMAIN call_args

SingleCall == ValidCall /\ call_args["band"] # "all"

AllCall == ValidCall /\ call_args["band"] = "all"

\* The catalog response has arrived and has the expected shape.
CatalogRead ==
  /\ Len(received) >= 1
  /\ ~Failed(received[1])
  /\ "bands" \in DOMAIN received[1].text.value

CatalogSeq == band_names(received[1].text.value)

LastIndexOf(names, b) ==
  CHOOSE i \in 1..Len(names) :
    names[i] = b /\ \A j \in (i + 1)..Len(names) : names[j] # b

\* ------------------------------------------------------------------ C1
\* C1: a get_data call whose mapping has a key outside the thirteen
\* recognized ones ends with ValueError carrying exactly the offending keys,
\* and no request at all is issued, whatever else the mapping holds.
C1_InvalidKeysRejected ==
  (op = "get_data" /\ DOMAIN call_args \ RecognizedKeys # {}) =>
    /\ Over
    /\ outcome.kind = "raise"
    /\ outcome.err = "ValueError"
    /\ outcome.args = DOMAIN call_args \ RecognizedKeys
    /\ sent = <<>>
    /\ received = <<>>

W_C1 ==
  /\ op = "get_data"
  /\ pc = "done"
  /\ DOMAIN call_args = {"product", "band", "foo", "bar"}
  /\ call_args["band"] = "all"
  /\ outcome.args = {"foo", "bar"}
  /\ sent = <<>>

\* ------------------------------------------------------------------ C2
\* C2: in a valid call every subset request has the product value in its
\* path, no query parameter named product, and as query parameters exactly
\* the supplied keys other than product; single-band or all-bands alike.
C2_ProductInPathOnly ==
  ValidCall =>
    \A i \in 1..Len(sent) :
      IsSubsetRequest(sent[i]) =>
        /\ sent[i].url = <<modis_rest_api, call_args["product"], "/subset?">>
        /\ "product" \notin DOMAIN sent[i].params
        /\ DOMAIN sent[i].params = DOMAIN call_args \ {"product"}

W_C2 ==
  /\ AllCall
  /\ pc = "done"
  /\ Len(sent) = 3
  /\ IsSubsetRequest(sent[2])
  /\ IsSubsetRequest(sent[3])
  /\ "latitude" \in DOMAIN sent[3].params
  /\ sent[3].url[2] = "MOD13Q1"

\* ------------------------------------------------------------------ C3
\* C3: a get_data call leaves the caller's mapping as it was, and a second
\* call with the same mapping object starts with the same request as the
\* first.
CE_C3_CallerMappingUntouched ==
  (op = "get_data" /\ pc = "done") =>
    /\ search_params = call_args
    /\ (again /\ prev_sent # <<>>) => (sent # <<>> /\ sent[1] = prev_sent[1])

\* ------------------------------------------------------------------ C4
\* C4 as stated: in all-bands mode, when the catalog lists b1..bN and every
\* request succeeds, there is one bands request then N subset requests, the
\* i-th with band = bi, and the call returns a mapping with key set
\* {b1..bN} in which bi maps to the document returned for the i-th request.
AllSucceeded ==
  /\ AllCall
  /\ Over
  /\ CatalogRead
  /\ \A k \in 1..Len(received) : ~Failed(received[k])

FanOutShape ==
  /\ Len(sent) = Len(CatalogSeq) + 1
  /\ Len(received) = Len(sent)
  /\ sent[1].url = <<modis_rest_api, call_args["product"], "/bands">>
  /\ \A i \in 1..Len(CatalogSeq) :
       /\ IsSubsetRequest(sent[i + 1])
       /\ sent[i + 1].params["band"] = CatalogSeq[i]
  /\ outcome.kind = "return"
  /\ outcome.shape = "map"
  /\ DOMAIN outcome.val = {CatalogSeq[i] : i \in 1..Len(CatalogSeq)}

CE_C4_EachRequestsDocumentKept ==
  AllSucceeded =>
    /\ FanOutShape
    /\ \A i \in 1..Len(CatalogSeq) :
         outcome.val[CatalogSeq[i]] = received[i + 1].text.value

\* C4 amended: as above, but each key maps to the document returned for the
\* last request that carried that band name (the i-th request's document
\* when the catalog's names are distinct).
C4_FanOutLastDocumentKept ==
  AllSucceeded =>
    /\ FanOutShape
    /\ \A b \in DOMAIN outcome.val :
         outcome.val[b] = received[LastIndexOf(CatalogSeq, b) + 1].text.value

W_C4 ==
  /\ AllSucceeded
  /\ pc = "done"
  /\ Len(CatalogSeq) = 2
  /\ CatalogSeq[1] = CatalogSeq[2]
  /\ received[2].text.value # received[3].text.value
  /\ outcome.kind = "return"

\* ------------------------------------------------------------------ C5
\* C5: in all-bands mode a failed bands or subset request (transport error
\* or undecodable body) ends the call with that error: nothing is returned,
\* no later request is issued, and the failed request is not issued again.
C5_FanOutFailsAsAWhole ==
  (AllCall /\ \E k \in 1..Len(received) : Failed(received[k])) =>
    /\ Over
    /\ \A k \in 1..(Len(received) - 1) : ~Failed(received[k])
    /\ Len(sent) = Len(received)
    /\ outcome.kind = "raise"
    /\ outcome.shape = ""
    /\ outcome.err = IF received[Len(received)].kind = "error"
                       THEN "ConnectionError" ELSE "JSONDecodeError"

W_C5 ==
  /\ AllCall
  /\ pc = "done"
  /\ Len(bands) = 2
  /\ Len(received) = 3
  /\ Failed(received[3])
  /\ DOMAIN results # {}
  /\ outcome.kind = "raise"

\* ------------------------------------------------------------------ C6
\* C6: a single-band call issues exactly one request, a subset request with
\* the supplied band and no header, never a bands request, and returns the
\* decoded document itself, not a band-keyed mapping.
C6_SingleBandPassthrough ==
  SingleCall =>
    /\ Len(sent) = 1
    /\ sent[1].url = <<modis_rest_api, call_args["product"], "/subset?">>
    /\ sent[1].params["band"] = call_args["band"]
    /\ sent[1].headers = EmptyMap
    /\ Len(received) <= 1
    /\ (Over /\ Len(received) = 1 /\ ~Failed(received[1])) =>
         /\ outcome.kind = "return"
         /\ outcome.shape = "doc"
         /\ outcome.val = received[1].text.value

W_C6 ==
  /\ SingleCall
  /\ pc = "done"
  /\ call_args["band"] = "sur_refl_b06"
  /\ outcome.kind = "return"
  /\ outcome.val = "D2"

\* ------------------------------------------------------------------ C7
\* C7: in each of the four operations a response whose body is not JSON
\* ends the call with JSONDecodeError and no value; the status code plays no
\* part, so a decodable body is used as the result whatever the status.
LeafOps == {"get_products", "get_bands", "get_dates"}

C7_DecodeErrorPropagates ==
  (Over /\ received # <<>>) =>
    LET last == received[Len(received)] IN
    /\ (last.kind = "response" /\ ~last.text.valid) =>
         /\ outcome.kind = "raise"
         /\ outcome.err = "JSONDecodeError"
         /\ outcome.shape = ""
    /\ (/\ last.kind = "response"
        /\ last.text.valid
        /\ op \in LeafOps \/ (op = "get_data" /\ IsSubsetRequest(sent[1]))) =>
         /\ outcome.kind = "return"
         /\ outcome.shape = "doc"
         /\ outcome.val = last.text.value
    /\ (/\ last.kind = "response"
        /\ last.text.valid
        /\ op = "get_data"
        /\ Len(received) >= 2) =>
         /\ outcome.kind = "return"
         /\ outcome.shape = "map"
         /\ outcome.val[bands[Len(bands)]] = last.text.value

W_C7 ==
  /\ pc = "done"
  /\ op = "get_dates"
  /\ Len(received) = 1
  /\ received[1].kind = "response"
  /\ received[1].status = 500
  /\ ~received[1].text.valid
  /\ outcome.err = "JSONDecodeError"

\* ------------------------------------------------------------------ C8
\* C8: get_dates(product, longitude, latitude) issues exactly one GET to
\* {product}/dates with the Accept: application/json header, whose query
\* string is latitude=<third argument> followed by longitude=<second
\* argument>.
Shown(c) == IF c = 39 THEN "39" ELSE "-121"

C8_DatesLatitudeFirst ==
  op = "get_dates" =>
    /\ Len(sent) = 1
    /\ sent[1].url = <<"https://modis.ornl.gov/rst/api/v1/",
                       call_args.product, "/dates?",
                       "latitude=", Shown(call_args.latitude), "&",
                       "longitude=", Shown(call_args.longitude)>>
    /\ sent[1].headers = [Accept |-> "application/json"]
    /\ sent[1].params = EmptyMap

W_C8 ==
  /\ op = "get_dates"
  /\ pc = "done"
  /\ call_args.longitude = -121
  /\ call_args.latitude = 39
  /\ outcome.kind = "return"

\* ------------------------------------------------------------------ C9
\* C9: with only recognized keys, a mapping without product, or with product
\* but without band, ends get_data with KeyError (not ValueError) before any
\* request is issued; in the missing-band case product is already gone from
\* the caller's mapping.
C9_MissingKeyFailsBeforeAnyRequest ==
  (op = "get_data" /\ DOMAIN call_args \subseteq RecognizedKeys) =>
    /\ "product" \notin DOMAIN call_args =>
         /\ Over
         /\ sent = <<>>
         /\ outcome.kind = "raise"
         /\ outcome.err = "KeyError"
         /\ outcome.err # "ValueError"
         /\ outcome.args = {"product"}
    /\ ("product" \in DOMAIN call_args /\ "band" \notin DOMAIN call_args) =>
         /\ Over
         /\ sent = <<>>
         /\ outcome.kind = "raise"
         /\ outcome.err = "KeyError"
         /\ outcome.err # "ValueError"
         /\ outcome.args = {"band"}
         /\ "product" \notin DOMAIN search_params
         /\ search_params = [k \in DOMAIN call_args \ {"product"} |-> call_args[k]]

W_C9 ==
  /\ op = "get_data"
  /\ pc = "done"
  /\ ~again
  /\ DOMAIN call_args = {"product", "latitude"}
  /\ outcome.args = {"band"}
  /\ DOMAIN search_params = {"latitude"}

\* ------------------------------------------------------------------ C10
\* C10 amended: in all-bands mode the bands request comes first, the i-th
\* subset request carries the i-th name of the catalog response and
\* otherwise the caller's query parameters, so a subset request carries
\* band = 'all' only when the catalog itself lists a band of that name; an
\* empty catalog gives zero subset requests and an empty mapping.
C10_BandsFromCatalog ==
  AllCall =>
    /\ sent # <<>>
    /\ sent[1].url = <<modis_rest_api, call_args["product"], "/bands">>
    /\ \A i \in 2..Len(sent) :
         /\ IsSubsetRequest(sent[i])
         /\ CatalogRead
         /\ i - 1 <= Len(CatalogSeq)
         /\ sent[i].params["band"] = CatalogSeq[i - 1]
         /\ DOMAIN sent[i].params = DOMAIN call_args \ {"product"}
         /\ \A k \in DOMAIN sent[i].params \ {"band"} :
              sent[i].params[k] = call_args[k]
    /\ (CatalogRead /\ CatalogSeq = <<>>) =>
         /\ Over
         /\ Len(sent) = 1
         /\ outcome.kind = "return"
         /\ outcome.shape = "map"
         /\ outcome.val = EmptyMap

\* C10 as stated: the above, and no subset request ever carries band = 'all'.
CE_C10_NeverCarriesAll ==
  /\ C10_BandsFromCatalog
  /\ AllCall =>
       \A i \in 1..Len(sent) :
         IsSubsetRequest(sent[i]) => sent[i].params["band"] # "all"

W_C10 ==
  /\ AllCall
  /\ pc = "done"
  /\ Len(sent) = 3
  /\ sent[2].params["band"] = "b2"
  /\ sent[3].params["band"] = "b1"
  /\ "latitude" \in DOMAIN sent[3].params
  /\ outcome.kind = "return"

====
